---- MODULE Spec2Model ----
(***************************************************************************)
(* Model of the notation helpers of tardis/util.py: the roman-numeral      *)
(* codec (int_to_roman, roman_to_int), the element-symbol registry         *)
(* (element_symbol2atomic_number, reformat_element_symbol), the species    *)
(* parser/formatter (species_string_to_tuple, species_tuple_to_string) and *)
(* parse_quantity.                                                         *)
(*                                                                         *)
(* The text of a Python string is a sequence of one-character strings,     *)
(* over the ASCII characters.  Where the code tests the type of a value,   *)
(* the value is a record [type |-> T, val |-> v] of its Python 2 type and  *)
(* its content.  The outcome of a call is a record:                        *)
(* [kind |-> "ok", val |-> v] for a returned value, or [kind |-> E] for a  *)
(* raised exception of class E.                                            *)
(***************************************************************************)
EXTENDS Integers, Sequences, FiniteSets

VARIABLES pc, arg, mid, ret, env

vars == <<pc, arg, mid, ret, env>>

Ok(v) == [kind |-> "ok", val |-> v]

Raise(e) == [kind |-> e]

None == [kind |-> "none"]

\* a Python 2 int object, as int arithmetic on small values gives it
IntObj(n) == [type |-> "int", val |-> n]

\* a Python 2 str object (a byte string)
StrObj(s) == [type |-> "str", val |-> s]

\* ------------------------------------------------------------------ bounds

\* int_to_roman is called on -NegInts .. RomanLimit + OverInts
NegInts == 2
OverInts == 2
\* roman_to_int is called on every string of at most MaxRomanLen characters
MaxRomanLen == 4
\* species_string_to_tuple is called on every string of at most MaxSpeciesLen characters
MaxSpeciesLen == 4
\* element_symbol2atomic_number is called on every string of at most MaxSymbolLen characters
MaxSymbolLen == 3
\* parse_quantity is called on every string of at most MaxQuantityLen characters
MaxQuantityLen == 4

\* ------------------------------------------------------- characters, str

LowerLetters == <<"a","b","c","d","e","f","g","h","i","j","k","l","m",
                  "n","o","p","q","r","s","t","u","v","w","x","y","z">>

UpperLetters == <<"A","B","C","D","E","F","G","H","I","J","K","L","M",
                  "N","O","P","Q","R","S","T","U","V","W","X","Y","Z">>

Digits == <<"0","1","2","3","4","5","6","7","8","9">>

\* the whitespace of a byte string: \s, str.split(), str.strip(), int(), float()
Whitespace == {" ", "\t", "\n", "\r", "\f", ""}

\* the ASCII characters for which unicode.isspace() holds
UnicodeWhitespace == Whitespace \cup {"", "", "", ""}

\* the characters split() separates on, by the type of the string
WhitespaceOf(type) == IF type = "unicode" THEN UnicodeWhitespace ELSE Whitespace

IndexIn(c, table) == CHOOSE i \in 1..Len(table) : table[i] = c

IsIn(c, table) == \E i \in 1..Len(table) : table[i] = c

\* str.upper() and str.lower() on one character
UpperChar(c) == IF IsIn(c, LowerLetters) THEN UpperLetters[IndexIn(c, LowerLetters)] ELSE c

LowerChar(c) == IF IsIn(c, UpperLetters) THEN LowerLetters[IndexIn(c, UpperLetters)] ELSE c

Upper(s) == [i \in 1..Len(s) |-> UpperChar(s[i])]

Lower(s) == [i \in 1..Len(s) |-> LowerChar(s[i])]

IsDigit(c) == IsIn(c, Digits)

IsSpace(c) == c \in Whitespace

\* \w of the re module on a byte string: [a-zA-Z0-9_]
IsWord(c) == IsIn(c, LowerLetters) \/ IsIn(c, UpperLetters) \/ IsDigit(c) \/ c = "_"

DigitVal(c) == IndexIn(c, Digits) - 1

\* roman * count
RECURSIVE Repeat(_, _)
Repeat(s, count) == IF count <= 0 THEN <<>> ELSE s \o Repeat(s, count - 1)

\* every str over the alphabet with at most n characters
StringsUpTo(alphabet, n) == UNION {[1..k -> alphabet] : k \in 0..n}

\* ------------------------------------------------------------ roman codec

RomanLimit == 4000

int_roman_tuples ==
    << <<1000, <<"M">> >>, <<900, <<"C","M">> >>, <<500, <<"D">> >>, <<400, <<"C","D">> >>,
       <<100, <<"C">> >>, <<90, <<"X","C">> >>, <<50, <<"L">> >>, <<40, <<"X","L">> >>,
       <<10, <<"X">> >>, <<9, <<"I","X">> >>, <<5, <<"V">> >>, <<4, <<"I","V">> >>,
       <<1, <<"I">> >> >>

\* the for loop of int_to_roman from table entry idx on
RECURSIVE RomanLoop(_, _, _)
RomanLoop(idx, int_input, result) ==
    IF idx > Len(int_roman_tuples) THEN result
    ELSE LET integer == int_roman_tuples[idx][1]
             roman == int_roman_tuples[idx][2]
             count == int_input \div integer
         IN RomanLoop(idx + 1, int_input - integer * count, result \o Repeat(roman, count))

\* isinstance(x, int): an int or a bool; not a long, not a float
IsInstanceInt(x) == x.type \in {"int", "bool"}

\* the range test of int_to_roman: not 0 < int_input < 4000
InRomanRange(int_input) == 0 < int_input /\ int_input < RomanLimit

int_to_roman(int_input) ==
    IF ~IsInstanceInt(int_input) THEN Raise("TypeError")
    ELSE IF ~InRomanRange(int_input.val) THEN Raise("ValueError")
    ELSE Ok(RomanLoop(1, int_input.val, <<>>))

nums == <<"M", "D", "C", "L", "X", "V", "I">>

ints == <<1000, 500, 100, 50, 10, 5, 1>>

FaceValue(c) == ints[IndexIn(c, nums)]

\* places[i]: the value of roman_input[i], negative when the next place is larger
PlaceValueUnsigned(roman_input, i) == FaceValue(roman_input[i])

PlaceValue(roman_input, i) ==
    LET value == FaceValue(roman_input[i])
    IN IF i + 1 <= Len(roman_input) /\ FaceValue(roman_input[i + 1]) > value
       THEN -value ELSE value

RECURSIVE SumPlaces(_, _)
SumPlaces(roman_input, i) ==
    IF i > Len(roman_input) THEN 0
    ELSE PlaceValue(roman_input, i) + SumPlaces(roman_input, i + 1)

\* "Easiest test for validity": re-encode and compare; an int_to_roman error propagates
RomanValidityLoose(result, roman_input) == Ok(result)

RomanValidity(result, roman_input) ==
    LET again == int_to_roman(IntObj(result))
    IN IF again.kind # "ok" THEN again
       ELSE IF again.val = roman_input THEN Ok(result)
       ELSE Raise("ValueError")

roman_to_int(roman_string) ==
    IF roman_string.type # "str" THEN Raise("TypeError")
    ELSE LET roman_input == Upper(roman_string.val)
         IN IF \E i \in 1..Len(roman_input) : ~IsIn(roman_input[i], nums)
            THEN Raise("ValueError")
            ELSE RomanValidity(SumPlaces(roman_input, 1), roman_input)

\* ------------------------------------------------------- element registry

\* the (atomic_number, symbol) records of data/atomic_symbols.dat
atomic_symbols_data ==
    << <<1, <<"H">>>>, <<2, <<"H","e">>>>, <<3, <<"L","i">>>>, <<4, <<"B","e">>>>, <<5, <<"B">>>>,
       <<6, <<"C">>>>, <<7, <<"N">>>>, <<8, <<"O">>>>, <<9, <<"F">>>>, <<10, <<"N","e">>>>,
       <<11, <<"N","a">>>>, <<12, <<"M","g">>>>, <<13, <<"A","l">>>>, <<14, <<"S","i">>>>, <<15, <<"P">>>>,
       <<16, <<"S">>>>, <<17, <<"C","l">>>>, <<18, <<"A","r">>>>, <<19, <<"K">>>>, <<20, <<"C","a">>>>,
       <<21, <<"S","c">>>>, <<22, <<"T","i">>>>, <<23, <<"V">>>>, <<24, <<"C","r">>>>, <<25, <<"M","n">>>>,
       <<26, <<"F","e">>>>, <<27, <<"C","o">>>>, <<28, <<"N","i">>>>, <<29, <<"C","u">>>>, <<30, <<"Z","n">>>>,
       <<31, <<"G","a">>>>, <<32, <<"G","e">>>>, <<33, <<"A","s">>>>, <<34, <<"S","e">>>>, <<35, <<"B","r">>>>,
       <<36, <<"K","r">>>>, <<37, <<"R","b">>>>, <<38, <<"S","r">>>>, <<39, <<"Y">>>>, <<40, <<"Z","r">>>>,
       <<41, <<"N","b">>>>, <<42, <<"M","o">>>>, <<43, <<"T","c">>>>, <<44, <<"R","u">>>>, <<45, <<"R","h">>>>,
       <<46, <<"P","d">>>>, <<47, <<"A","g">>>>, <<48, <<"C","d">>>>, <<49, <<"I","n">>>>, <<50, <<"S","n">>>>,
       <<51, <<"S","b">>>>, <<52, <<"T","e">>>>, <<53, <<"I">>>>, <<54, <<"X","e">>>>, <<55, <<"C","s">>>>,
       <<56, <<"B","a">>>>, <<57, <<"L","a">>>>, <<58, <<"C","e">>>>, <<59, <<"P","r">>>>, <<60, <<"N","d">>>>,
       <<61, <<"P","m">>>>, <<62, <<"S","m">>>>, <<63, <<"E","u">>>>, <<64, <<"G","d">>>>, <<65, <<"T","b">>>>,
       <<66, <<"D","y">>>>, <<67, <<"H","o">>>>, <<68, <<"E","r">>>>, <<69, <<"T","m">>>>, <<70, <<"Y","b">>>>,
       <<71, <<"L","u">>>>, <<72, <<"H","f">>>>, <<73, <<"T","a">>>>, <<74, <<"W">>>>, <<75, <<"R","e">>>>,
       <<76, <<"O","s">>>>, <<77, <<"I","r">>>>, <<78, <<"P","t">>>>, <<79, <<"A","u">>>>, <<80, <<"H","g">>>>,
       <<81, <<"T","l">>>>, <<82, <<"P","b">>>>, <<83, <<"B","i">>>>, <<84, <<"P","o">>>>, <<85, <<"A","t">>>>,
       <<86, <<"R","n">>>>, <<87, <<"F","r">>>>, <<88, <<"R","a">>>>, <<89, <<"A","c">>>>, <<90, <<"T","h">>>>,
       <<91, <<"P","a">>>>, <<92, <<"U">>>>, <<93, <<"N","p">>>>, <<94, <<"P","u">>>>, <<95, <<"A","m">>>>,
       <<96, <<"C","m">>>>, <<97, <<"B","k">>>>, <<98, <<"C","f">>>>, <<99, <<"E","s">>>>, <<100, <<"F","m">>>>,
       <<101, <<"M","d">>>>, <<102, <<"N","o">>>>, <<103, <<"L","r">>>>, <<104, <<"R","f">>>>, <<105, <<"D","b">>>>,
       <<106, <<"S","g">>>>, <<107, <<"B","h">>>>, <<108, <<"H","s">>>>, <<109, <<"M","t">>>>, <<110, <<"D","s">>>>,
       <<111, <<"R","g">>>>, <<112, <<"C","n">>>>, <<113, <<"N","h">>>>, <<114, <<"F","l">>>>, <<115, <<"M","c">>>>,
       <<116, <<"L","v">>>>, <<117, <<"T","s">>>>, <<118, <<"O","g">>>> >>

\* symbol2atomic_number: symbol -> atomic_number (membership and lookup)
InSymbol2AtomicNumber(symbol) ==
    \E i \in 1..Len(atomic_symbols_data) : atomic_symbols_data[i][2] = symbol

symbol2atomic_number(symbol) ==
    atomic_symbols_data[CHOOSE i \in 1..Len(atomic_symbols_data) :
                            atomic_symbols_data[i][2] = symbol][1]

\* atomic_number2symbol: atomic_number -> symbol
InAtomicNumber2Symbol(atomic_number) ==
    \E i \in 1..Len(atomic_symbols_data) : atomic_symbols_data[i][1] = atomic_number

atomic_number2symbol(atomic_number) ==
    atomic_symbols_data[CHOOSE i \in 1..Len(atomic_symbols_data) :
                            atomic_symbols_data[i][1] = atomic_number][2]

\* element_string[0].upper() + element_string[1:].lower(); [0] of '' is an IndexError
reformat_element_symbol(element_string) ==
    IF Len(element_string) = 0 THEN Raise("IndexError")
    ELSE Ok(<<UpperChar(element_string[1])>> \o Lower(Tail(element_string)))

element_symbol2atomic_number(element_string) ==
    LET reformatted_element_string == reformat_element_symbol(element_string)
    IN IF reformatted_element_string.kind # "ok" THEN reformatted_element_string
       ELSE IF ~InSymbol2AtomicNumber(reformatted_element_string.val)
            THEN Raise("MalformedElementSymbolError")
       ELSE Ok(symbol2atomic_number(reformatted_element_string.val))

\* ------------------------------------------------- str <-> int conversions

\* '%d' % n
RECURSIVE DecimalDigits(_)
DecimalDigits(n) ==
    IF n < 10 THEN <<Digits[n + 1]>>
    ELSE DecimalDigits(n \div 10) \o <<Digits[(n % 10) + 1]>>

FormatDecimal(n) == IF n < 0 THEN <<"-">> \o DecimalDigits(0 - n) ELSE DecimalDigits(n)

RECURSIVE DigitsValue(_)
DigitsValue(s) ==
    IF Len(s) = 0 THEN 0
    ELSE 10 * DigitsValue(SubSeq(s, 1, Len(s) - 1)) + DigitVal(s[Len(s)])

AllDigits(s) == Len(s) >= 1 /\ \A i \in 1..Len(s) : IsDigit(s[i])

\* strip(): without the leading and trailing characters of ws
RECURSIVE Strip(_, _)
Strip(s, ws) ==
    IF Len(s) = 0 THEN s
    ELSE IF s[1] \in ws THEN Strip(Tail(s), ws)
    ELSE IF s[Len(s)] \in ws THEN Strip(SubSeq(s, 1, Len(s) - 1), ws)
    ELSE s

\* int(s) of Python 2 on a byte string, base 10: an optional sign and one or more
\* digits, with whitespace allowed around them and between the sign and the digits
PyInt(string) ==
    LET s == Strip(string, Whitespace)
        signed == Len(s) >= 1 /\ s[1] \in {"+", "-"}
        body == IF signed THEN Strip(Tail(s), Whitespace) ELSE s
    IN IF ~AllDigits(body) THEN Raise("ValueError")
       ELSE IF signed /\ s[1] = "-" THEN Ok(0 - DigitsValue(body))
       ELSE Ok(DigitsValue(body))

\* the exponent of a float literal: an optional sign and one or more digits
ExponentInt(s) ==
    LET signed == Len(s) >= 1 /\ s[1] \in {"+", "-"}
        body == IF signed THEN Tail(s) ELSE s
    IN IF ~AllDigits(body) THEN Raise("ValueError")
       ELSE IF signed /\ s[1] = "-" THEN Ok(0 - DigitsValue(body))
       ELSE Ok(DigitsValue(body))

\* split(): the maximal runs of characters outside ws, in order
RECURSIVE Split(_, _)
Split(s, ws) ==
    IF Len(s) = 0 THEN <<>>
    ELSE IF s[1] \in ws THEN Split(Tail(s), ws)
    ELSE LET stops == {i \in 1..Len(s) : s[i] \in ws}
             stop == IF stops = {} THEN Len(s) + 1
                     ELSE CHOOSE i \in stops : \A j \in stops : i <= j
         IN <<SubSeq(s, 1, stop - 1)>> \o Split(SubSeq(s, stop, Len(s)), ws)

\* ------------------------------------------------------- species notation

\* species_tuple_to_string with the roman branch rendering ion_number, not ion_number + 1
species_tuple_to_string_unshifted(species_tuple, roman_numerals) ==
    LET atomic_number == species_tuple[1]
        ion_number == species_tuple[2]
    IN IF ~InAtomicNumber2Symbol(atomic_number) THEN Raise("KeyError")
       ELSE LET element_symbol == atomic_number2symbol(atomic_number)
            IN IF roman_numerals
               THEN LET roman_ion_number == int_to_roman(IntObj(ion_number))
                    IN IF roman_ion_number.kind # "ok" THEN roman_ion_number
                       ELSE Ok(element_symbol \o <<" ">> \o roman_ion_number.val)
               ELSE Ok(element_symbol \o <<" ">> \o FormatDecimal(ion_number))

species_tuple_to_string(species_tuple, roman_numerals) ==
    LET atomic_number == species_tuple[1]
        ion_number == species_tuple[2]
    IN IF ~InAtomicNumber2Symbol(atomic_number) THEN Raise("KeyError")
       ELSE LET element_symbol == atomic_number2symbol(atomic_number)
            IN IF roman_numerals
               THEN LET roman_ion_number == int_to_roman(IntObj(ion_number + 1))
                    IN IF roman_ion_number.kind # "ok" THEN roman_ion_number
                       ELSE Ok(element_symbol \o <<" ">> \o roman_ion_number.val)
               ELSE Ok(element_symbol \o <<" ">> \o FormatDecimal(ion_number))

\* the character classes of the pattern: \w, \s, \d
InClass(c, class) ==
    CASE class = "word" -> IsWord(c)
      [] class = "space" -> IsSpace(c)
      [] class = "digit" -> IsDigit(c)

\* the index of the last character of the run of characters of the class that
\* starts at s[from] (from - 1 when the run is empty)
RunEnd(s, from, class) ==
    LET breaks == {i \in from..Len(s) : ~InClass(s[i], class)}
    IN IF breaks = {} THEN Len(s)
       ELSE (CHOOSE i \in breaks : \A j \in breaks : i <= j) - 1

\* re.match('^(\w+)\s*(\d+)', species_string): \w+ is greedy and gives characters
\* back until, after the whitespace that follows it, a digit stands.
\* [kind |-> "ok", val |-> <<group 1, group 2>>, end |-> last matched index], or None
SpeciesReMatch(species_string) ==
    LET s == species_string
        word_end == RunEnd(s, 1, "word")
        fits == {i \in 1..word_end :
                    LET j == RunEnd(s, i + 1, "space")
                    IN j + 1 <= Len(s) /\ IsDigit(s[j + 1])}
    IN IF fits = {} THEN None
       ELSE LET i == CHOOSE k \in fits : \A l \in fits : l <= k
                j == RunEnd(s, i + 1, "space")
                e == RunEnd(s, j + 1, "digit")
            IN [kind |-> "ok", val |-> <<SubSeq(s, 1, i), SubSeq(s, j + 1, e)>>, end |-> e]

\* the first try block: the two groups of the match or, without a match, the two
\* tokens of species_string.split(). The pattern is compiled without re.UNICODE,
\* so its classes are the ASCII ones on a unicode string too; split() takes the
\* whitespace of the string's type.
SpeciesFields(species_string) ==
    LET m == SpeciesReMatch(species_string.val)
        tokens == Split(species_string.val, WhitespaceOf(species_string.type))
    IN IF m.kind = "ok" THEN Ok(m.val)
       ELSE IF Len(tokens) = 2 THEN Ok(tokens)
       ELSE Raise("MalformedSpeciesError")

\* the second try block: roman_to_int, on ValueError int(), on ValueError malformed.
\* Only ValueError is caught: the TypeError roman_to_int raises on a unicode field
\* leaves the function, and int() is reached with a str only.
IonNumber(ion_number_string) ==
    LET roman == roman_to_int(ion_number_string)
        plain == PyInt(ion_number_string.val)
    IN IF roman.kind # "ValueError" THEN roman
       ELSE IF plain.kind # "ValueError" THEN plain
       ELSE Raise("MalformedSpeciesError")

\* the range test and the returned tuple
SpeciesTuple(atomic_number, ion_number) ==
    IF ion_number > atomic_number THEN Raise("ValueError")
    ELSE Ok(<<atomic_number, ion_number - 1>>)

species_string_to_tuple(species_string) ==
    LET fields == SpeciesFields(species_string)
    IN IF fields.kind # "ok" THEN fields
       ELSE LET atomic_number == element_symbol2atomic_number(fields.val[1])
            IN IF atomic_number.kind # "ok" THEN atomic_number
               ELSE LET ion_number == IonNumber([type |-> species_string.type,
                                                 val |-> fields.val[2]])
                    IN IF ion_number.kind # "ok" THEN ion_number
                       ELSE SpeciesTuple(atomic_number.val, ion_number.val)

\* -------------------------------------------------------- parse_quantity

\* a float as sign, digits and decimal scale: (-1)^neg * num / 10^scale, with
\* num free of trailing zeros; magnitudes stay inside the range of a double
RECURSIVE FloatOf(_, _, _)
FloatOf(neg, num, scale) ==
    IF num = 0 THEN [neg |-> neg, num |-> 0, scale |-> 0]
    ELSE IF num % 10 = 0 THEN FloatOf(neg, num \div 10, scale - 1)
    ELSE [neg |-> neg, num |-> num, scale |-> scale]

\* the characters of s other than the first "."
WithoutPoint(s) ==
    LET points == {i \in 1..Len(s) : s[i] = "."}
    IN IF points = {} THEN s
       ELSE LET p == CHOOSE i \in points : TRUE
            IN SubSeq(s, 1, p - 1) \o SubSeq(s, p + 1, Len(s))

\* the number of characters after the "." of s
FractionLen(s) ==
    LET points == {i \in 1..Len(s) : s[i] = "."}
    IN IF points = {} THEN 0 ELSE Len(s) - (CHOOSE i \in points : TRUE)

\* digits with at most one ".", and at least one digit
IsMantissa(s) ==
    /\ Cardinality({i \in 1..Len(s) : s[i] = "."}) <= 1
    /\ AllDigits(WithoutPoint(s))

\* float(s): [sign] digits-with-point [e [sign] digits], or inf, infinity, nan,
\* with the whitespace ws of the string's type allowed around it
PyFloat(string, ws) ==
    LET s == Lower(Strip(string, ws))
        signed == Len(s) >= 1 /\ s[1] \in {"+", "-"}
        neg == signed /\ s[1] = "-"
        body == IF signed THEN Tail(s) ELSE s
        marks == {i \in 1..Len(body) : body[i] = "e"}
        mark == IF marks = {} THEN Len(body) + 1
                ELSE CHOOSE i \in marks : \A j \in marks : i <= j
        mantissa == SubSeq(body, 1, mark - 1)
        exponent == ExponentInt(SubSeq(body, mark + 1, Len(body)))
    IN IF body \in {<<"i","n","f">>, <<"i","n","f","i","n","i","t","y">>}
       THEN Ok([neg |-> neg, special |-> "inf"])
       ELSE IF body = <<"n","a","n">> THEN Ok([special |-> "nan"])
       ELSE IF ~IsMantissa(mantissa) THEN Raise("ValueError")
       ELSE IF marks = {}
            THEN Ok(FloatOf(neg, DigitsValue(WithoutPoint(mantissa)), FractionLen(mantissa)))
       ELSE IF exponent.kind # "ok" THEN Raise("ValueError")
       ELSE Ok(FloatOf(neg, DigitsValue(WithoutPoint(mantissa)),
                       FractionLen(mantissa) - exponent.val))

\* u.Quantity(value, unit_string) of astropy: the quantity, or ValueError for a
\* unit string the resolver rejects (accepts is the resolver's verdict)
Quantity(value, unit_string, accepts) ==
    IF accepts THEN Ok([value |-> value, unit |-> unit_string])
    ELSE Raise("ValueError")

\* the last try block of parse_quantity without its except clause
QuantityOrMalformedUncaught(value, unit_string, accepts) ==
    Quantity(value, unit_string, accepts)

\* the last try block of parse_quantity
QuantityOrMalformed(value, unit_string, accepts) ==
    LET q == Quantity(value, unit_string, accepts)
    IN IF q.kind = "ValueError" THEN Raise("MalformedQuantityError") ELSE q

parse_quantity(quantity_string, accepts) ==
    IF quantity_string.type \notin {"str", "unicode"} THEN Raise("MalformedQuantityError")
    ELSE LET ws == WhitespaceOf(quantity_string.type)
             tokens == Split(quantity_string.val, ws)
         IN IF Len(tokens) # 2 THEN Raise("MalformedQuantityError")
            ELSE LET value == PyFloat(tokens[1], ws)
                 IN IF value.kind = "ValueError" THEN Raise("MalformedQuantityError")
                    ELSE QuantityOrMalformed(value.val, tokens[2], accepts)

\* ---------------------------------------------------------------- actions

\* a call of int_to_roman(arg)
CallIntToRoman ==
    /\ pc = "start"
    /\ mid' = int_to_roman(arg)
    /\ pc' = "encoded"
    /\ UNCHANGED <<arg, ret, env>>

\* a call of roman_to_int on the str that int_to_roman returned
CallRomanToInt ==
    /\ pc = "encoded"
    /\ mid.kind = "ok"
    /\ ret' = roman_to_int(StrObj(mid.val))
    /\ pc' = "done"
    /\ UNCHANGED <<arg, mid, env>>

\* a call of roman_to_int(arg)
CallRomanToIntOfArg ==
    /\ pc = "start"
    /\ ret' = roman_to_int(arg)
    /\ pc' = "done"
    /\ UNCHANGED <<arg, mid, env>>

\* a call of species_tuple_to_string(arg.species, arg.roman_numerals); the string
\* '%s %s' % (...) builds is a str
CallSpeciesTupleToString ==
    /\ pc = "start"
    /\ mid' = LET species_string == species_tuple_to_string(arg.species, arg.roman_numerals)
              IN IF species_string.kind = "ok" THEN Ok(StrObj(species_string.val))
                 ELSE species_string
    /\ pc' = "encoded"
    /\ UNCHANGED <<arg, ret, env>>

\* a call of species_string_to_tuple on the string in flight, a str or a unicode
CallSpeciesStringToTuple ==
    /\ pc = "encoded"
    /\ mid.kind = "ok"
    /\ ret' = species_string_to_tuple(mid.val)
    /\ pc' = "done"
    /\ UNCHANGED <<arg, mid, env>>

\* a call of element_symbol2atomic_number(arg)
CallElementSymbol2AtomicNumber ==
    /\ pc = "start"
    /\ ret' = element_symbol2atomic_number(arg)
    /\ pc' = "done"
    /\ UNCHANGED <<arg, mid, env>>

\* a call of parse_quantity(arg), the unit resolver answering env.accepts
CallParseQuantity ==
    /\ pc = "start"
    /\ ret' = parse_quantity(arg, env.accepts)
    /\ pc' = "done"
    /\ UNCHANGED <<arg, mid, env>>

\* ------------------------------------------- specification: roman round trip

\* the integers of -NegInts .. RomanLimit + OverInts
RomanInts == (0 - NegInts)..(RomanLimit + OverInts)

\* the arguments of int_to_roman: each integer as an int and as a long (the type of
\* n written nL, and of every integer beyond sys.maxint), and the two bools
RomanArgs ==
    [type : {"int", "long"}, val : RomanInts] \cup [type : {"bool"}, val : {0, 1}]

InitRoman ==
    /\ arg \in RomanArgs
    /\ pc = "start"
    /\ mid = None
    /\ ret = None
    /\ env = None

NextRoman == CallIntToRoman \/ CallRomanToInt

SpecRoman == InitRoman /\ [][NextRoman]_vars

\* C1: for every n in 1..3999 (an int, as Python types the integers of that
\* range), roman_to_int(int_to_roman(n)) succeeds and returns n
RomanRoundTrip ==
    (arg.type = "int" /\ arg.val \in 1..3999) =>
        /\ pc # "start" => mid.kind = "ok"
        /\ pc = "done" => ret = Ok(arg.val)

RomanRoundTripWitness ==
    /\ pc = "done"
    /\ arg = IntObj(1999)
    /\ mid = Ok(<<"M","C","M","X","C","I","X">>)
    /\ ret = Ok(1999)

\* C7: int_to_roman raises ValueError for every integer n <= 0 and every integer
\* n >= 4000, and returns a string for every integer n in 1..3999
EncodeRange ==
    (pc # "start" /\ arg.type \in {"int", "long"}) =>
        /\ (arg.val <= 0 \/ arg.val >= 4000) => mid = Raise("ValueError")
        /\ (1 <= arg.val /\ arg.val <= 3999) => (mid.kind = "ok" /\ Len(mid.val) >= 1)

\* ------------------------------------------- specification: roman decoding

\* the numeral alphabet, a lower-case numeral and a character outside it
DecodeAlphabet == {"M", "D", "C", "L", "X", "V", "I", "x", "a"}

\* the rejected inputs of roman_to_int's doctest
DecodeDoctests == {<<"V","V","V","I","V">>, <<"a">>, <<"I","L">>}

\* arguments of roman_to_int that are not of type str
DecodeNonStr ==
    {[type |-> "unicode", val |-> <<"I","I">>], [type |-> "unicode", val |-> <<"a">>],
     [type |-> "int", val |-> <<>>]}

InitDecode ==
    /\ arg \in {StrObj(v) : v \in StringsUpTo(DecodeAlphabet, MaxRomanLen) \cup DecodeDoctests}
               \cup DecodeNonStr
    /\ pc = "start"
    /\ mid = None
    /\ ret = None
    /\ env = None

NextDecode == CallRomanToIntOfArg

SpecDecode == InitDecode /\ [][NextDecode]_vars

\* the canonical numerals: int_to_roman(n) for n in 1..3999
CanonicalRoman == [n \in 1..3999 |-> RomanLoop(1, n, <<>>)]

CanonicalSet == {CanonicalRoman[n] : n \in 1..3999}

\* C6: roman_to_int(s), s a str, succeeds iff upper(s) = int_to_roman(n) for some
\* n in 1..3999, and then returns that n; every other str raises ValueError
DecodeCanonicalOnly ==
    (pc = "done" /\ arg.type = "str") =>
        /\ (Upper(arg.val) \in CanonicalSet) =>
               /\ ret.kind = "ok"
               /\ ret.val \in 1..3999
               /\ CanonicalRoman[ret.val] = Upper(arg.val)
        /\ (Upper(arg.val) \notin CanonicalSet) => ret = Raise("ValueError")

DecodeCanonicalOnlyWitness ==
    pc = "done" /\ arg = StrObj(<<"x","I","V">>) /\ ret = Ok(14)

\* ----------------------------------- specification: species round trip

AtomicNumbers == {atomic_symbols_data[i][1] : i \in 1..Len(atomic_symbols_data)}

\* every species (Z, ion_number) with Z registered and 0 <= ion_number < Z
ValidSpecies == {t \in AtomicNumbers \X (0..Len(atomic_symbols_data)) : t[2] < t[1]}

InitSpecies ==
    /\ arg \in [species : ValidSpecies, roman_numerals : BOOLEAN]
    /\ pc = "start"
    /\ mid = None
    /\ ret = None
    /\ env = None

NextSpecies == CallSpeciesTupleToString \/ CallSpeciesStringToTuple

SpecSpecies == InitSpecies /\ [][NextSpecies]_vars

\* C2: for every valid species, species_string_to_tuple reads the decimal rendering
\* of species_tuple_to_string(..., roman_numerals=False) back as the same tuple
DecimalRoundTrip ==
    (pc = "done" /\ ~arg.roman_numerals) => ret = Ok(arg.species)

\* C3: for every valid species, species_string_to_tuple reads the rendering
\* "<symbol> <roman(ion_number + 1)>" back as the same tuple
RomanSpeciesRoundTrip ==
    /\ (pc # "start" /\ arg.roman_numerals) =>
           mid = Ok(StrObj(atomic_number2symbol(arg.species[1]) \o <<" ">>
                           \o CanonicalRoman[arg.species[2] + 1]))
    /\ (pc = "done" /\ arg.roman_numerals) => ret = Ok(arg.species)

RomanSpeciesRoundTripWitness ==
    /\ pc = "done"
    /\ arg = [species |-> <<14, 1>>, roman_numerals |-> TRUE]
    /\ mid = Ok(StrObj(<<"S","i"," ","I","I">>))
    /\ ret = Ok(<<14, 1>>)

\* ----------------------------------- specification: the three notations

\* the species string of a notation: "Si2", "Si 2" or "Si II"
NotationString(n) ==
    LET symbol == atomic_number2symbol(n.atomic_number)
    IN CASE n.notation = "adjacent" -> symbol \o FormatDecimal(n.stage)
         [] n.notation = "spaced" -> symbol \o <<" ">> \o FormatDecimal(n.stage)
         [] n.notation = "roman" -> symbol \o <<" ">> \o CanonicalRoman[n.stage]

\* every registered atomic number Z with every ionization stage 1..Z, in each notation
Notations ==
    {n \in [atomic_number : AtomicNumbers, stage : 1..Len(atomic_symbols_data),
            notation : {"adjacent", "spaced", "roman"}] : n.stage <= n.atomic_number}

InitNotation ==
    /\ arg \in Notations
    /\ mid = Ok(StrObj(NotationString(arg)))
    /\ pc = "encoded"
    /\ ret = None
    /\ env = None

NextNotation == CallSpeciesStringToTuple

SpecNotation == InitNotation /\ [][NextNotation]_vars

\* C5: for every registered symbol S of atomic number Z and every stage k in 1..Z,
\* species_string_to_tuple returns (Z, k-1) for S+decimal(k), S+" "+decimal(k)
\* and S+" "+roman(k)
ThreeNotations ==
    pc = "done" => ret = Ok(<<arg.atomic_number, arg.stage - 1>>)

\* ----------------------------------- specification: species parsing

SpeciesAlphabet == {"H", "S", "i", "I", "0", "1", "2", "-", " ", "", "", "x"}

\* the species strings the documentation names
SpeciesExamples ==
    { <<"S","i"," ","2","x">>, <<"S","i"," ","2"," ","3">>, <<"F","e"," ","9","9">>,
      <<"S","i"," ","I","I">>, <<"F","e"," ","I","V">>, <<"X","x"," ","2">> }

InitParse ==
    /\ arg \in [type : {"str", "unicode"},
                val : StringsUpTo(SpeciesAlphabet, MaxSpeciesLen) \cup SpeciesExamples]
    /\ mid = Ok(arg)
    /\ pc = "encoded"
    /\ ret = None
    /\ env = None

NextParse == CallSpeciesStringToTuple

SpecParse == InitParse /\ [][NextParse]_vars

\* C4: every tuple species_string_to_tuple returns has 0 <= ion_number < atomic_number
IonizationInRange ==
    (pc = "done" /\ ret.kind = "ok") => (0 <= ret.val[2] /\ ret.val[2] < ret.val[1])

AllLetters(s) ==
    Len(s) >= 1 /\ \A i \in 1..Len(s) : IsIn(s[i], LowerLetters) \/ IsIn(s[i], UpperLetters)

\* an ionization token: a decimal integer or a word of numeral letters
IsIonToken(t) ==
    \/ PyInt(t).kind = "ok"
    \/ Len(t) >= 1 /\ \A i \in 1..Len(t) : IsIn(UpperChar(t[i]), nums)

\* one element-symbol token, then one ionization token, adjacent or after
\* whitespace, and nothing else
SymbolThenIonOnly(s) ==
    LET tokens == Split(s, Whitespace)
    IN \/ Len(tokens) = 2 /\ AllLetters(tokens[1]) /\ IsIonToken(tokens[2])
       \/ /\ Len(tokens) = 1
          /\ \E i \in 1..(Len(tokens[1]) - 1) :
                 /\ AllLetters(SubSeq(tokens[1], 1, i))
                 /\ AllDigits(SubSeq(tokens[1], i + 1, Len(tokens[1])))

\* C10: species_string_to_tuple returns a tuple only for inputs that are one
\* element-symbol token followed by one ionization token and nothing else
OnlySymbolThenIon ==
    (pc = "done" /\ ret.kind = "ok") => SymbolThenIonOnly(arg.val)

\* ----------------------------------- specification: symbol lookup

SymbolAlphabet == {"f", "e", "F", "E", "h", "x", "1"}

InitSymbol ==
    /\ arg \in StringsUpTo(SymbolAlphabet, MaxSymbolLen)
    /\ pc = "start"
    /\ mid = None
    /\ ret = None
    /\ env = None

NextSymbol == CallElementSymbol2AtomicNumber

SpecSymbol == InitSymbol /\ [][NextSymbol]_vars

\* first character uppercased, the rest lowercased
Normalized(raw) == [i \in 1..Len(raw) |-> IF i = 1 THEN UpperChar(raw[i]) ELSE LowerChar(raw[i])]

\* C8: for every input string, the empty one included, element_symbol2atomic_number
\* returns the number registered for the normalized string, or raises
\* MalformedElementSymbolError when the registry does not hold it
SymbolLookupTotal ==
    pc = "done" =>
        IF \E i \in 1..Len(atomic_symbols_data) : atomic_symbols_data[i][2] = Normalized(arg)
        THEN ret.kind = "ok" /\ atomic_symbols_data[ret.val] = <<ret.val, Normalized(arg)>>
        ELSE ret = Raise("MalformedElementSymbolError")

\* ----------------------------------- specification: quantity strings

QuantityAlphabet == {"5", ".", "e", "m", " ", "", ""}

\* the quantity strings the documentation names, and a negative value
QuantityExamples ==
    { <<"5"," ","k","m","/","s">>, <<"a","b","c">>, <<"-","5"," ","m">>, <<"5","e","5"," ","m">> }

\* values that are not strings
NonStrings == {[type |-> "int"], [type |-> "float"], [type |-> "NoneType"]}

InitQuantity ==
    /\ arg \in [type : {"str", "unicode"},
                val : StringsUpTo(QuantityAlphabet, MaxQuantityLen) \cup QuantityExamples]
               \cup NonStrings
    /\ env \in [accepts : BOOLEAN]
    /\ pc = "start"
    /\ mid = None
    /\ ret = None

NextQuantity == CallParseQuantity

SpecQuantity == InitQuantity /\ [][NextQuantity]_vars

\* the indices at which a token of s starts, ws being the whitespace
TokenStarts(s, ws) == {i \in 1..Len(s) : s[i] \notin ws /\ (i = 1 \/ s[i - 1] \in ws)}

\* the token of s that starts at index i
TokenAt(s, i, ws) ==
    LET ends == {j \in i..Len(s) : s[j] \notin ws /\ (j = Len(s) \/ s[j + 1] \in ws)}
    IN SubSeq(s, i, CHOOSE j \in ends : \A k \in ends : j <= k)

\* C9: parse_quantity raises MalformedQuantityError, and nothing else, when the
\* input is no string, has not exactly two whitespace-separated tokens, has a
\* first token that is no float, or has a unit the resolver rejects; otherwise it
\* returns the quantity of float(first token) and the second token
QuantitySingleError ==
    pc = "done" =>
        IF arg.type \notin {"str", "unicode"} THEN ret = Raise("MalformedQuantityError")
        ELSE LET ws == WhitespaceOf(arg.type)
                 starts == TokenStarts(arg.val, ws)
                 first == CHOOSE i \in starts : \A j \in starts : i <= j
                 second == CHOOSE i \in starts : \A j \in starts : j <= i
             IN IF \/ Cardinality(starts) # 2
                   \/ PyFloat(TokenAt(arg.val, first, ws), ws).kind # "ok"
                   \/ ~env.accepts
                THEN ret = Raise("MalformedQuantityError")
                ELSE ret = Ok([value |-> PyFloat(TokenAt(arg.val, first, ws), ws).val,
                               unit |-> TokenAt(arg.val, second, ws)])

QuantitySingleErrorWitness ==
    /\ pc = "done"
    /\ arg = [type |-> "str", val |-> <<"5"," ","k","m","/","s">>]
    /\ env.accepts
    /\ ret = Ok([value |-> [neg |-> FALSE, num |-> 5, scale |-> 0],
                 unit |-> <<"k","m","/","s">>])

====
